---- MODULE Spec2Model ----
(***************************************************************************)
(* A model of backend/pdf2emb_nlp/scraper.py: class DocumentScraper.        *)
(*                                                                         *)
(* Python strings are modelled as sequences of one-character strings, so   *)
(* that str.replace, str.strip and the `in` operator are computed on the   *)
(* characters.  A pandas Series is a sequence of strings, a DataFrame is a  *)
(* sequence of named columns of equal length.                              *)
(***************************************************************************)
EXTENDS Naturals, Sequences, FiniteSets

(* ----------------------------- bounds --------------------------------- *)

MaxLen == 3        \* longest page text handed to _clean_text on its own
MaxPairs == 2      \* most (find, replace) pairs in a cleaning mapping
MaxPages == 2      \* most pages in one document

(* ----------------------------- values --------------------------------- *)

None == "None"
NaN == "NaN"
Whitespace == {" "}
Alphabet == {"a", "b", " "}

DotPdf == <<".", "p", "d", "f">>
DotJson == <<".", "j", "s", "o", "n">>

\* What json.load may return: a dict (its pairs in insertion order), or the list
\* it returns for a JSON array, a value that is not a dict.
Dict(items) == [pytype |-> "dict", items |-> items]
JsonList == [pytype |-> "list", items |-> <<>>]

Strings(n) == UNION {[1..m -> Alphabet] : m \in 0..n}

\* find-strings and replace-strings of the cleaning mappings that are tried
Keys == {<<"a">>, <<"b">>, <<" ">>, <<"a", "a">>, <<>>}
Vals == {<<>>, <<"a">>, <<"b">>, <<" ">>}

RECURSIVE MappingsOfLen(_)
MappingsOfLen(n) ==
    IF n = 0 THEN {<<>>}
    ELSE {Append(m, <<k, v>>) :
            m \in MappingsOfLen(n - 1), k \in Keys, v \in Vals}

DistinctKeys(m) == \A i, j \in 1..Len(m) : i # j => m[i][1] # m[j][1]

\* dicts: insertion-ordered sequences of (key, value) pairs with distinct keys
Mappings == {m \in UNION {MappingsOfLen(n) : n \in 0..MaxPairs} : DistinctKeys(m)}

(* ------------------------- Python str methods -------------------------- *)

\* sub == s[i : i + len(sub)]
MatchAt(s, sub, i) ==
    /\ i >= 1
    /\ i + Len(sub) - 1 <= Len(s)
    /\ \A j \in 1..Len(sub) : s[i + j - 1] = sub[j]

\* sub in s
Contains(s, sub) == \E i \in 1..(Len(s) + 1) : MatchAt(s, sub, i)

\* str.replace(old, new): one left-to-right scan, matches do not overlap and
\* the replacement text is never rescanned.  With old == "" the new text is put
\* before every character and at the end.
RECURSIVE ReplaceFrom(_, _, _, _)
ReplaceFrom(s, old, new, i) ==
    IF i > Len(s) THEN (IF old = <<>> THEN new ELSE <<>>)
    ELSE IF old = <<>> THEN new \o <<s[i]>> \o ReplaceFrom(s, old, new, i + 1)
    ELSE IF MatchAt(s, old, i) THEN new \o ReplaceFrom(s, old, new, i + Len(old))
    ELSE <<s[i]>> \o ReplaceFrom(s, old, new, i + 1)

str_replace(s, old, new) == ReplaceFrom(s, old, new, 1)

RECURSIVE lstrip(_)
lstrip(s) ==
    IF s # <<>> /\ s[1] \in Whitespace THEN lstrip(Tail(s)) ELSE s

RECURSIVE rstrip(_)
rstrip(s) ==
    IF s # <<>> /\ s[Len(s)] \in Whitespace
    THEN rstrip(SubSeq(s, 1, Len(s) - 1)) ELSE s

str_strip(s) == rstrip(lstrip(s))

(* --------------------------- DocumentScraper --------------------------- *)

\* a plausible slip: the pairs are applied last to first
RECURSIVE ReplaceItemsReversed(_, _, _)
ReplaceItemsReversed(items, page, n) ==
    IF n > Len(items) THEN page
    ELSE ReplaceItemsReversed(items,
            str_replace(page, items[Len(items) + 1 - n][1],
                              items[Len(items) + 1 - n][2]), n + 1)

\* _clean_text: every pair of self.open_json in insertion order, each acting on
\* the text the previous one left, then strip().
RECURSIVE ReplaceItems(_, _, _)
ReplaceItems(items, page, n) ==
    IF n > Len(items) THEN page
    ELSE ReplaceItems(items, str_replace(page, items[n][1], items[n][2]), n + 1)

\* a plausible slip: strip() is called before the replacements instead of after
CleanStripFirst(items, page) == ReplaceItems(items, str_strip(page), 1)

_clean_text(items, page) == str_strip(ReplaceItems(items, page, 1))

\* pd.Series.append(pd.Series(page_text), ignore_index=True)
SeriesPrepend(series, page_text) == <<page_text>> \o series

series_append(series, page_text) == Append(series, page_text)

\* str(file).replace('.pdf', '')
ColumnNameKeepsExtension(file) == file

column_name(file) == str_replace(file, DotPdf, <<>>)

\* pd.DataFrame()
EmptyDataFrame == <<>>

NumRows(df) == IF df = <<>> THEN 0 ELSE Len(df[1].rows)

PadTo(rows, n) == rows \o [i \in 1..(n - Len(rows)) |-> NaN]

\* pd.concat([df, series], axis=1): the union of the two row indexes; the cells a
\* column has no value for are NaN.  An empty Series still contributes its column.
ConcatDropsEmptySeries(df, name, series) ==
    IF series = <<>> THEN df
    ELSE Append(df, [name |-> name, rows |-> series])

concat_axis1(df, name, series) ==
    LET n == IF NumRows(df) > Len(series) THEN NumRows(df) ELSE Len(series)
    IN  [c \in 1..Len(df) |-> [name |-> df[c].name, rows |-> PadTo(df[c].rows, n)]]
        \o <<[name |-> name, rows |-> PadTo(series, n)]>>

(* ------------------------------ inputs --------------------------------- *)

\* the path argument of the constructor
Paths == { <<"a", ".", "p", "d", "f">>,
           <<"a">>,
           <<"a", ".", "p", "d", "f", ".", "p", "d", "f">>,
           <<"a", ".", "p", ".", "p", "d", "f", "d", "f">> }

\* the json_filename argument of the constructor; NoFilename is None
NoFilename == [given |-> FALSE, name |-> <<>>]
Filename(n) == [given |-> TRUE, name |-> n]
JsonFilenames == { NoFilename,
                   Filename(<<"c", ".", "j", "s", "o", "n">>),
                   Filename(<<"c", ".", "t", "x", "t">>),
                   Filename(<<"c", ".", "j", "s", "o", "n", ".", "b", "a", "k">>) }

\* what the file named by json_filename holds
ConfigMappings == { <<>>,
                    << <<<<"a", "a">>, <<"a">>>> >>,
                    << <<<<"b">>, <<>>>>, <<<<"a">>, <<" ">>>> >> }
JsonContents == {[kind |-> "absent", value |-> <<>>],
                 [kind |-> "malformed", value |-> <<>>],
                 [kind |-> "array", value |-> <<>>]}
                \cup {[kind |-> "object", value |-> m] : m \in ConfigMappings}

\* the raw text slate3k extracts from a page
PageTexts == { <<>>, <<" ", "a", "b">>, <<"a", "a", "a", " ">>, <<"b", " ", "a">> }

Documents == UNION {[1..n -> PageTexts] : n \in 0..MaxPages}

\* what is at self.path
PathKinds == {"missing", "file", "dir", "noaccess"}

\* the page counts of the pdf files in the folder, when self.path is a folder
Folders == { <<1, 2>>, <<3, 5>>, <<2, 2>> }

\* where the PDF parser raises, if it does
NoFailure == [stage |-> "none", page |-> 0]
Failures(doc) == {NoFailure, [stage |-> "reader", page |-> 0], [stage |-> "len", page |-> 0]}
                 \cup {[stage |-> "page", page |-> k] : k \in 1..Len(doc)}

(* ------------------------------- state --------------------------------- *)

VARIABLES
    pc,               \* position in the constructor / document_corpus_to_pandas_df
    path,             \* self.path
    json_filename,    \* the constructor's json_filename
    content,          \* what the file json_filename names holds
    open_json,        \* self.open_json
    kind,             \* what is at self.path on the file system
    folder,           \* the pdf files under self.path when it is a folder
    pages,            \* the pages slate3k yields for the file at self.path
    failAt,           \* where slate3k raises for that file
    reported,         \* what len(pdf_reader) reports
    handle,           \* the file object pdf: "unopened", "open" or "closed"
    num_pages,        \* local num_pages of _text_to_series_of_pages
    i,                \* pages consumed from enumerate(pdf_reader)
    document_series,  \* local document_series of _text_to_series_of_pages
    extract,          \* _text_to_series_of_pages: "not_called", "running", "returned", "raised"
    ret_series,       \* the Series _text_to_series_of_pages returned
    ret_num_pages,    \* the count _text_to_series_of_pages returned
    df,               \* local df of document_corpus_to_pandas_df
    result,           \* "pending", "returned" or "raised"
    out,              \* the DataFrame document_corpus_to_pandas_df returned
    exc,              \* the exception that left the call
    parserFailed,     \* the PDF parser has raised
    text,             \* a page text cleaned on its own
    cleaned,          \* _clean_text(text)
    cleaned2          \* _clean_text(cleaned)

vars == <<pc, path, json_filename, content, open_json, kind, folder, pages, failAt,
          reported, handle, num_pages, i, document_series, extract, ret_series,
          ret_num_pages, df, result, out, exc, parserFailed, text, cleaned, cleaned2>>

envVars == <<kind, folder, pages, failAt, reported>>
cleanVars == <<text, cleaned, cleaned2>>
ctorVars == <<path, json_filename, content, open_json>>
extractVars == <<handle, num_pages, i, document_series, ret_series, ret_num_pages>>

(* --------------------------- _read_config ------------------------------ *)

\* the value or the exception a call leaves with
Returns(v) == [raised |-> FALSE, exc |-> None, value |-> v]
Raises(e) == [raised |-> TRUE, exc |-> e, value |-> Dict(<<>>)]

_read_config(filename, held) ==
    IF ~filename.given THEN Returns(Dict(<<>>))
    ELSE IF ~Contains(filename.name, DotJson) THEN Raises("AssertionError")
    ELSE IF held.kind = "absent" THEN Raises("FileNotFoundError")
    ELSE IF held.kind = "malformed" THEN Raises("JSONDecodeError")
    ELSE IF held.kind = "array" THEN Returns(JsonList)
    ELSE Returns(Dict(held.value))

(* ---------------------------- the pipeline ----------------------------- *)

\* os.path.exists(self.path)
ExistsAlways(k) == TRUE

exists(k) == k # "missing"

\* the exception of open(self.path, 'rb') when it cannot open
OpenError(k) ==
    IF k = "missing" THEN "FileNotFoundError"
    ELSE IF k = "dir" THEN "IsADirectoryError"
    ELSE "PermissionError"

\* a slip: the caller catches the exception and hands back its empty DataFrame
PropagateSwallowed(e) ==
    /\ pc' = "done"
    /\ result' = "returned"
    /\ out' = EmptyDataFrame
    /\ exc' = e
    /\ extract' = "raised"
    /\ UNCHANGED <<df, extractVars>>

\* An exception raised inside _text_to_series_of_pages: nothing catches it, in
\* that method or in document_corpus_to_pandas_df, and nothing closes pdf.
Propagate(e) ==
    /\ pc' = "done"
    /\ result' = "raised"
    /\ exc' = e
    /\ extract' = "raised"
    /\ UNCHANGED <<df, out, extractVars>>

\* DocumentScraper(path, json_filename)
Construct(p, filename, held) ==
    /\ pc = "new"
    /\ path' = p
    /\ json_filename' = filename
    /\ content' = held
    /\ LET r == _read_config(filename, held)
       IN  IF r.raised
           THEN /\ pc' = "ctor_raised"
                /\ result' = "raised"
                /\ exc' = r.exc
                /\ UNCHANGED open_json
           ELSE /\ pc' = "ready"
                /\ open_json' = r.value
                /\ UNCHANGED <<result, exc>>
    /\ UNCHANGED <<envVars, cleanVars, extractVars, extract, df, out, parserFailed>>

\* document_corpus_to_pandas_df, up to the call of _text_to_series_of_pages
StartScrape ==
    /\ pc = "ready"
    /\ df' = EmptyDataFrame
    /\ IF ~exists(kind)
       THEN /\ pc' = "done"
            /\ result' = "returned"
            /\ out' = EmptyDataFrame
            /\ UNCHANGED extract
       ELSE /\ pc' = "open"
            /\ extract' = "running"
            /\ UNCHANGED <<result, out>>
    /\ UNCHANGED <<ctorVars, envVars, cleanVars, extractVars, exc, parserFailed>>

\* document_series = pd.Series(); pdf = open(self.path, 'rb')
OpenPdf ==
    /\ pc = "open"
    /\ kind = "file"
    /\ pc' = "reader"
    /\ handle' = "open"
    /\ document_series' = <<>>
    /\ UNCHANGED <<ctorVars, envVars, cleanVars, num_pages, i, ret_series,
                   ret_num_pages, extract, df, result, out, exc, parserFailed>>

OpenPdfFails ==
    /\ pc = "open"
    /\ kind # "file"
    /\ Propagate(OpenError(kind))
    /\ UNCHANGED <<ctorVars, envVars, cleanVars, parserFailed>>

\* pdf_reader = slate3k.PDF(pdf)
MakeReader ==
    /\ pc = "reader"
    /\ failAt.stage # "reader"
    /\ pc' = "len"
    /\ UNCHANGED <<ctorVars, envVars, cleanVars, extractVars, extract, df, result,
                   out, exc, parserFailed>>

MakeReaderFails ==
    /\ pc = "reader"
    /\ failAt.stage = "reader"
    /\ parserFailed' = TRUE
    /\ Propagate("PDFSyntaxError")
    /\ UNCHANGED <<ctorVars, envVars, cleanVars>>

\* num_pages = len(pdf_reader)
ReadLen ==
    /\ pc = "len"
    /\ failAt.stage # "len"
    /\ num_pages' = reported
    /\ i' = 0
    /\ pc' = "iter"
    /\ UNCHANGED <<ctorVars, envVars, cleanVars, handle, document_series, ret_series,
                   ret_num_pages, extract, df, result, out, exc, parserFailed>>

ReadLenFails ==
    /\ pc = "len"
    /\ failAt.stage = "len"
    /\ parserFailed' = TRUE
    /\ Propagate("PDFSyntaxError")
    /\ UNCHANGED <<ctorVars, envVars, cleanVars>>

\* one turn of the for loop: the page is cleaned and appended
NextPage ==
    /\ pc = "iter"
    /\ i < Len(pages)
    /\ failAt # [stage |-> "page", page |-> i + 1]
    /\ open_json.pytype = "dict"
    /\ document_series' =
           series_append(document_series, _clean_text(open_json.items, pages[i + 1]))
    /\ i' = i + 1
    /\ UNCHANGED <<pc, ctorVars, envVars, cleanVars, handle, num_pages, ret_series,
                   ret_num_pages, extract, df, result, out, exc, parserFailed>>

\* the parser raises while the loop fetches the next page
NextPageFails ==
    /\ pc = "iter"
    /\ i < Len(pages)
    /\ failAt = [stage |-> "page", page |-> i + 1]
    /\ parserFailed' = TRUE
    /\ Propagate("PDFSyntaxError")
    /\ UNCHANGED <<ctorVars, envVars, cleanVars>>

\* self.open_json.items() when json.load returned a list
CleanPageFails ==
    /\ pc = "iter"
    /\ i < Len(pages)
    /\ failAt # [stage |-> "page", page |-> i + 1]
    /\ open_json.pytype # "dict"
    /\ Propagate("AttributeError")
    /\ UNCHANGED <<ctorVars, envVars, cleanVars, parserFailed>>

\* pdf.close(); return document_series, num_pages
ClosePdf ==
    /\ pc = "iter"
    /\ i = Len(pages)
    /\ handle' = "closed"
    /\ ret_series' = document_series
    /\ ret_num_pages' = num_pages
    /\ extract' = "returned"
    /\ pc' = "assemble"
    /\ UNCHANGED <<ctorVars, envVars, cleanVars, num_pages, i, document_series, df,
                   result, out, exc, parserFailed>>

\* isinstance(series, pd.Series) holds of every Series, the empty one too:
\* series.rename(...); df = pd.concat([df, series], axis=1); return df
Assemble ==
    /\ pc = "assemble"
    /\ df' = concat_axis1(df, column_name(path), ret_series)
    /\ out' = df'
    /\ result' = "returned"
    /\ pc' = "done"
    /\ UNCHANGED <<ctorVars, envVars, cleanVars, extractVars, extract, exc, parserFailed>>

InitState ==
    /\ path = <<>>
    /\ json_filename = NoFilename
    /\ content = [kind |-> "absent", value |-> <<>>]
    /\ open_json = Dict(<<>>)
    /\ handle = "unopened"
    /\ num_pages = 0
    /\ i = 0
    /\ document_series = <<>>
    /\ extract = "not_called"
    /\ ret_series = <<>>
    /\ ret_num_pages = 0
    /\ df = EmptyDataFrame
    /\ result = "pending"
    /\ out = EmptyDataFrame
    /\ exc = None
    /\ parserFailed = FALSE

\* Before the constructor runs: what is on the file system at the path.
Init ==
    /\ pc = "new"
    /\ InitState
    /\ kind \in PathKinds
    /\ folder \in (IF kind = "dir" THEN Folders ELSE {<<>>})
    /\ pages \in (IF kind = "file" THEN Documents ELSE {<<>>})
    /\ failAt \in (IF kind = "file" THEN Failures(pages) ELSE {NoFailure})
    /\ reported \in (IF kind = "file" THEN {Len(pages), Len(pages) + 1} ELSE {0})
    /\ text = <<>>
    /\ cleaned = <<>>
    /\ cleaned2 = <<>>

Next ==
    \/ \E p \in Paths, filename \in JsonFilenames, held \in JsonContents :
           Construct(p, filename, held)
    \/ StartScrape
    \/ OpenPdf
    \/ OpenPdfFails
    \/ MakeReader
    \/ MakeReaderFails
    \/ ReadLen
    \/ ReadLenFails
    \/ NextPage
    \/ NextPageFails
    \/ CleanPageFails
    \/ ClosePdf
    \/ Assemble

Spec == Init /\ [][Next]_vars

(* ----------------------- _clean_text on its own ------------------------ *)

CleanOnce ==
    /\ pc = "clean"
    /\ cleaned' = _clean_text(open_json.items, text)
    /\ pc' = "cleaned"
    /\ UNCHANGED <<ctorVars, envVars, extractVars, extract, df, result, out, exc,
                   parserFailed, text, cleaned2>>

CleanAgain ==
    /\ pc = "cleaned"
    /\ cleaned2' = _clean_text(open_json.items, cleaned)
    /\ pc' = "recleaned"
    /\ UNCHANGED <<ctorVars, envVars, extractVars, extract, df, result, out, exc,
                   parserFailed, text, cleaned>>

\* A scraper whose mapping was loaded, and a page text about to be cleaned.
InitClean ==
    /\ pc = "clean"
    /\ path = <<>>
    /\ json_filename = NoFilename
    /\ content = [kind |-> "absent", value |-> <<>>]
    /\ \E m \in Mappings : open_json = Dict(m)
    /\ handle = "unopened"
    /\ num_pages = 0
    /\ i = 0
    /\ document_series = <<>>
    /\ extract = "not_called"
    /\ ret_series = <<>>
    /\ ret_num_pages = 0
    /\ df = EmptyDataFrame
    /\ result = "pending"
    /\ out = EmptyDataFrame
    /\ exc = None
    /\ parserFailed = FALSE
    /\ kind = "missing"
    /\ folder = <<>>
    /\ pages = <<>>
    /\ failAt = NoFailure
    /\ reported = 0
    /\ text \in Strings(MaxLen)
    /\ cleaned = <<>>
    /\ cleaned2 = <<>>

NextClean == CleanOnce \/ CleanAgain

SpecClean == InitClean /\ [][NextClean]_vars

(* ------------------- what the claims are stated with -------------------- *)

Front(s) == SubSeq(s, 1, Len(s) - 1)
Last(s) == s[Len(s)]
MaxOf(counts) == CHOOSE m \in {counts[c] : c \in 1..Len(counts)} :
                    \A c \in 1..Len(counts) : counts[c] <= m

\* Replacing every occurrence of old in s by new, stated on the occurrences: s
\* is cut at its leftmost occurrence of old, and the rest is treated alike.  The
\* empty string occurs before every character and at the end.
RECURSIVE ReplaceAll(_, _, _)
ReplaceAll(s, old, new) ==
    IF old = <<>>
    THEN (IF s = <<>> THEN new ELSE ReplaceAll(Front(s), old, new) \o <<Last(s)>> \o new)
    ELSE IF ~Contains(s, old) THEN s
    ELSE LET p == CHOOSE q \in 1..Len(s) :
                     /\ MatchAt(s, old, q)
                     /\ \A r \in 1..(q - 1) : ~MatchAt(s, old, r)
         IN  SubSeq(s, 1, p - 1) \o new
                 \o ReplaceAll(SubSeq(s, p + Len(old), Len(s)), old, new)

\* the pairs of m applied in the order of m, each to the output of the one before
RECURSIVE ApplyReplacements(_, _)
ApplyReplacements(s, m) ==
    IF m = <<>> THEN s
    ELSE ReplaceAll(ApplyReplacements(s, Front(m)), Last(m)[1], Last(m)[2])

\* s from its first to its last character that is not whitespace
Trim(s) ==
    LET solid == {q \in 1..Len(s) : s[q] \notin Whitespace}
    IN  IF solid = {} THEN <<>>
        ELSE SubSeq(s, CHOOSE q \in solid : \A r \in solid : q <= r,
                       CHOOSE q \in solid : \A r \in solid : r <= q)

Reversed(m) == [k \in 1..Len(m) |-> m[Len(m) + 1 - k]]

\* A replacement cycle: a pair whose replacement text feeds a pair whose
\* replacement text ... feeds the first.  Pair a feeds pair b when the text a
\* puts in contains b's find-string, or is a piece of it.
Feeds(m, a, b) ==
    \/ Contains(m[a][2], m[b][1])
    \/ m[a][2] # <<>> /\ Contains(m[b][1], m[a][2])

RECURSIVE FeedsWithin(_, _, _, _)
FeedsWithin(m, a, b, n) ==
    /\ n > 0
    /\ \/ Feeds(m, a, b)
       \/ \E c \in 1..Len(m) : Feeds(m, a, c) /\ FeedsWithin(m, c, b, n - 1)

NoReplacementCycle(m) == \A a \in 1..Len(m) : ~FeedsWithin(m, a, a, Len(m))

NoKeyOccurs(m, s) == \A a \in 1..Len(m) : ~Contains(s, m[a][1])

(* ------------------------------ claims --------------------------------- *)

\* C1: whenever _text_to_series_of_pages has opened the file, the file is
\* closed once the call has returned or raised.
C1_HandleClosedOnEveryExit ==
    (pc \in {"assemble", "done"} /\ handle # "unopened") => handle = "closed"

\* C2: when the path does not exist, document_corpus_to_pandas_df returns an
\* empty DataFrame, raises nothing, never calls _text_to_series_of_pages and
\* opens no file.
C2_MissingPathReturnsEmpty ==
    (kind = "missing" /\ pc \notin {"new", "ctor_raised", "ready"}) =>
        /\ pc = "done"
        /\ result = "returned"
        /\ exc = None
        /\ out = EmptyDataFrame
        /\ extract = "not_called"
        /\ handle = "unopened"

C2_Witness == pc = "done" /\ kind = "missing" /\ result = "returned"

\* C3: when the parser cannot parse the file, or raises on a page part-way
\* through the loop, _text_to_series_of_pages raises the parser's error and
\* returns no Series, and document_corpus_to_pandas_df raises too: it returns
\* no DataFrame, empty or partly filled.
C3_ParseFailurePropagates ==
    /\ parserFailed =>
          /\ pc = "done"
          /\ extract = "raised"
          /\ result = "raised"
          /\ exc = "PDFSyntaxError"
    /\ (pc = "done" /\ kind = "file" /\ failAt # NoFailure) =>
          /\ extract = "raised"
          /\ result = "raised"
          /\ open_json.pytype = "dict" => parserFailed

C3_Witness ==
    /\ pc = "done"
    /\ parserFailed
    /\ failAt = [stage |-> "page", page |-> 2]
    /\ document_series # <<>>
    /\ result = "raised"

\* C4: _clean_text(T) is T with every pair of the mapping applied as a literal
\* replace-all, in the mapping's insertion order, each pair on the output of the
\* one before, and then trimmed; with an empty mapping it is trim(T).
C4_CleanIsTrimOfReplacements ==
    pc \in {"cleaned", "recleaned"} =>
        /\ cleaned = Trim(ApplyReplacements(text, open_json.items))
        /\ open_json.items = <<>> => cleaned = Trim(text)

C4_Witness ==
    /\ pc = "cleaned"
    /\ Len(open_json.items) = 2
    /\ cleaned # Trim(text)
    /\ cleaned # Trim(ApplyReplacements(text, Reversed(open_json.items)))
    /\ cleaned # ApplyReplacements(text, open_json.items)

\* C5: for a document of N pages whose parser reports N, the call returns a
\* Series of exactly N entries and the count N, entry k being the cleaned text
\* of page k.
C5_OneEntryPerPageInOrder ==
    /\ (extract = "returned" /\ reported = Len(pages)) =>
          /\ Len(ret_series) = Len(pages)
          /\ ret_num_pages = Len(pages)
          /\ \A k \in 1..Len(pages) :
                ret_series[k] = Trim(ApplyReplacements(pages[k], open_json.items))
    /\ (pc = "done" /\ kind = "file" /\ failAt = NoFailure
            /\ open_json.pytype = "dict") => extract = "returned"

C5_Witness ==
    /\ pc = "done"
    /\ extract = "returned"
    /\ reported = Len(pages)
    /\ Len(pages) = 2
    /\ pages[1] # pages[2]
    /\ ret_series[1] # ret_series[2]
    /\ ret_series[1] # Trim(pages[1])

\* C6 as claimed: cleaning twice equals cleaning once for every mapping without
\* a replacement cycle.
C6_IdempotentWithoutCycles ==
    (pc = "recleaned" /\ NoReplacementCycle(open_json.items)) => cleaned2 = cleaned

\* C6 as amended: cleaning twice equals cleaning once whenever no find-string
\* of the mapping occurs in the text cleaned once.
C6_IdempotentWhenNoKeyIsLeft ==
    (pc = "recleaned" /\ NoKeyOccurs(open_json.items, cleaned)) => cleaned2 = cleaned

C6_Witness ==
    /\ pc = "recleaned"
    /\ Len(open_json.items) = 2
    /\ NoKeyOccurs(open_json.items, cleaned)
    /\ cleaned # <<>>
    /\ cleaned # Trim(text)
    /\ cleaned2 = cleaned

C8_ZeroPagesSameAsMissing ==
    (pc = "done" /\ extract = "returned" /\ ret_series = <<>>) =>
        /\ result = "returned"
        /\ out = EmptyDataFrame

\* C8 as amended: when the path exists and the document has no pages, the
\* DataFrame returned has no row and exactly one column, named by the path
\* with every '.pdf' removed.
C8_ZeroPagesOneEmptyColumn ==
    (pc = "done" /\ extract = "returned" /\ ret_series = <<>>) =>
        /\ result = "returned"
        /\ NumRows(out) = 0
        /\ Len(out) = 1
        /\ out[1].rows = <<>>
        /\ out[1].name = ReplaceAll(path, DotPdf, <<>>)

C8_Witness ==
    /\ pc = "done"
    /\ kind = "file"
    /\ pages = <<>>
    /\ extract = "returned"
    /\ result = "returned"
    /\ ret_series = <<>>

\* C9: with a json_filename given, the constructor's _read_config raises when
\* the name has no '.json' in it, raises when the file does not hold a JSON
\* object, and hands back the parsed mapping only when both checks pass.
C9_LoaderReturnsOnlyObjects ==
    (pc # "new" /\ json_filename.given) =>
        /\ ~Contains(json_filename.name, DotJson) =>
              pc = "ctor_raised" /\ exc = "AssertionError"
        /\ content.kind # "object" => pc = "ctor_raised"
        /\ pc # "ctor_raised" =>
              /\ Contains(json_filename.name, DotJson)
              /\ content.kind = "object"
              /\ open_json = Dict(content.value)

\* C10: when the path holds documents of different page counts, the DataFrame
\* has a column for each, every column as long as the longest document, and a
\* shorter document's rows beyond its own pages are NaN; none is rejected.
C10_ColumnsPaddedToLongest ==
    (pc = "done" /\ kind = "dir") =>
        /\ result = "returned"
        /\ Len(out) = Len(folder)
        /\ \A c \in 1..Len(out) :
              /\ Len(out[c].rows) = MaxOf(folder)
              /\ \A r \in (folder[c] + 1)..MaxOf(folder) : out[c].rows[r] = NaN

====
